---------------------------- MODULE Spec2Model ----------------------------
(***************************************************************************)
(* A model of the JMON live player: the Session class (src/session.js)     *)
(* and the player built around it (src/player.js).                         *)
(*                                                                         *)
(* Numbers.  A JavaScript number x is modelled by the integer 60*x: one    *)
(* quarter note is 60 ticks, a velocity of 0.7 is 42.  Every number the    *)
(* patterns below use is a multiple of 1/60.  Tempi are kept in plain BPM. *)
(* Strings are sequences of one-character strings, so that parsing is      *)
(* computed character by character as the code does.                       *)
(***************************************************************************)
EXTENDS Integers, Sequences, FiniteSets, TLC

VARIABLES
    session,        \* player.js:7   the Session object, or NoSession (null)
    synth,          \* player.js:8   TRUE once the PolySynth exists
    part,           \* player.js:9   the Tone.Part, or NoPart (null)
    isInitialized,  \* player.js:10
    pendingPattern, \* player.js:12  a pattern, or NullPattern
    transport,      \* Tone.Transport: its state and its bpm
    awaiting,       \* handlers suspended at initializePlayer's await
    status,         \* the text updateStatus last wrote
    stopRequested,  \* history: a 'stop' was handled and no 'start'/'resume' since
    playground,     \* the generative playground's state object and its Tone.Loop
    lastCall        \* the last operation: its name, its result, whether it threw

vars == <<session, synth, part, isInitialized, pendingPattern, transport,
          awaiting, status, stopRequested, playground, lastCall>>

playerVars == <<synth, part, isInitialized, pendingPattern, transport,
                awaiting, status, stopRequested, playground>>

-----------------------------------------------------------------------------
(* Bounds of the model. *)

\* Session.next and the Part callback stop firing once eventsPlayed reaches this.
MaxEvents == 3

\* At most this many handlers are suspended at initializePlayer's await.
MaxAwaiting == 2

-----------------------------------------------------------------------------
(* JavaScript values: a number, a string, or undefined. *)

Num(x) == [tag |-> "num", n |-> x, s |-> <<>>]

Str(cs) == [tag |-> "str", n |-> 0, s |-> cs]

Absent == [tag |-> "absent", n |-> 0, s |-> <<>>]

\* x quarter notes (or x as a plain number), in ticks.
Q(x) == 60 * x

\* JavaScript truthiness of a value: undefined, 0 and "" are falsy.
Truthy(v) ==
    CASE v.tag = "num" -> v.n # 0
      [] v.tag = "str" -> v.s # <<>>
      [] OTHER -> FALSE

Digits == {"0", "1", "2", "3", "4", "5", "6", "7", "8", "9"}

DigitVal(c) ==
    CASE c = "0" -> 0 [] c = "1" -> 1 [] c = "2" -> 2 [] c = "3" -> 3
      [] c = "4" -> 4 [] c = "5" -> 5 [] c = "6" -> 6 [] c = "7" -> 7
      [] c = "8" -> 8 [] c = "9" -> 9

\* The length of the longest prefix of cs made of digits.
RECURSIVE DigitPrefixLen(_)
DigitPrefixLen(cs) ==
    IF cs # <<>> /\ Head(cs) \in Digits THEN 1 + DigitPrefixLen(Tail(cs)) ELSE 0

\* The number a sequence of digits denotes (0 for the empty sequence).
RECURSIVE DigitsValue(_)
DigitsValue(cs) ==
    IF cs = <<>> THEN 0
    ELSE 10 * DigitsValue(SubSeq(cs, 1, Len(cs) - 1)) + DigitVal(cs[Len(cs)])

\* parseInt(cs) || 0: the leading digits of cs, 0 when there are none (NaN).
ParseIntOrZero(cs) == DigitsValue(SubSeq(cs, 1, DigitPrefixLen(cs)))

\* parseFloat(cs) || 0, in ticks: leading digits, then at most one fractional
\* digit (a tenth is 6 ticks); 0 when cs starts with no digit (NaN).
ParseFloatOrZero(cs) ==
    LET k == DigitPrefixLen(cs)
        whole == Q(DigitsValue(SubSeq(cs, 1, k)))
    IN  IF k = 0 THEN 0
        ELSE IF Len(cs) >= k + 2 /\ cs[k + 1] = "." /\ cs[k + 2] \in Digits
             THEN whole + 6 * DigitVal(cs[k + 2])
             ELSE whole

\* String.prototype.includes(':').
Includes(cs, c) == \E i \in 1..Len(cs) : cs[i] = c

\* The position of the first c in cs at or after i, Len(cs)+1 when there is none.
RECURSIVE IndexFrom(_, _, _)
IndexFrom(cs, c, i) ==
    IF i > Len(cs) THEN Len(cs) + 1
    ELSE IF cs[i] = c THEN i ELSE IndexFrom(cs, c, i + 1)

\* cs.split(':')[0] and cs.split(':')[1], for a cs that includes ':'.
SplitPart0(cs) == SubSeq(cs, 1, IndexFrom(cs, ":", 1) - 1)

SplitPart1(cs) ==
    LET i == IndexFrom(cs, ":", 1)
    IN  SubSeq(cs, i + 1, IndexFrom(cs, ":", i + 1) - 1)

\* A conversion that counts three beats to the bar.
BarsBeats_ThreeFour(cs) ==
    ParseIntOrZero(SplitPart0(cs)) * 3 * 60 + ParseFloatOrZero(SplitPart1(cs))

\* bars * 4 + beats of a "bars:beats[:ticks]" string, in ticks.
BarsBeats(cs) == ParseIntOrZero(SplitPart0(cs)) * 4 * 60 + ParseFloatOrZero(SplitPart1(cs))

\* Session.parseTime: the time in ticks.
parseTime(time) ==
    CASE time.tag = "num" -> time.n
      [] time.tag = "str" -> IF Includes(time.s, ":") THEN BarsBeats(time.s) ELSE 0
      [] OTHER -> 0

\* duration.match(/^(\d+)(n|t)$/): digits, one or more, then a final n or t.
MatchesNoteValue(cs) ==
    /\ Len(cs) >= 2
    /\ DigitPrefixLen(cs) = Len(cs) - 1
    /\ cs[Len(cs)] \in {"n", "t"}

\* The number JavaScript's division by zero yields, 4 / 0: no finite number
\* of ticks reaches it.
Infinity == 1000000000

\* Session.parseDuration at the given tempo: the duration in ticks.  The
\* note-value branch divides; the patterns of this model keep its divisor 0
\* or a divisor of 240 ("1n", "2n", "3n", "4n", "8n", "16n"), of 160 for
\* triplets.
parseDuration(duration, tempo) ==
    IF ~Truthy(duration) THEN 15
    ELSE IF duration.tag = "num"
    THEN IF duration.n < Q(10) THEN duration.n ELSE (duration.n * tempo) \div 60
    ELSE IF MatchesNoteValue(duration.s)
    THEN LET value == ParseIntOrZero(duration.s)
         IN  IF value = 0 THEN Infinity
             ELSE IF duration.s[Len(duration.s)] = "n" THEN 240 \div value
             ELSE 160 \div value
    ELSE IF Includes(duration.s, ":") THEN BarsBeats(duration.s)
    ELSE 15

\* Session.quarterNotesToSeconds at the given tempo: (q / tempo) * 60, the
\* seconds in ticks (one second is 60 ticks).
quarterNotesToSeconds(quarterNotes, tempo) == (quarterNotes * 60) \div tempo

\* The decimal digits of a natural number, as JavaScript prints it.
RECURSIVE NatToStr(_)
NatToStr(k) ==
    LET d == <<"0", "1", "2", "3", "4", "5", "6", "7", "8", "9">>
    IN  IF k < 10 THEN <<d[k + 1]>> ELSE NatToStr(k \div 10) \o <<d[(k % 10) + 1]>>

\* String(x) for a non-negative number of ticks whose fraction is a multiple
\* of a tenth or of a quarter: "2", "0.25", "1.5".
NumToStr(x) ==
    IF x = Infinity THEN <<"I", "n", "f", "i", "n", "i", "t", "y">> ELSE
    LET f == x % 60
        frac == CASE f = 0 -> <<>>
                  [] f = 15 -> <<".", "2", "5">>
                  [] f = 45 -> <<".", "7", "5">>
                  [] OTHER -> <<".">> \o NatToStr(f \div 6)
    IN  NatToStr(x \div 60) \o frac

\* JavaScript's a + b for b a number: a sum, or a concatenation when a is a string.
jsAdd(a, b) ==
    IF a.tag = "str" THEN Str(a.s \o NumToStr(b))
    ELSE IF b = Infinity THEN Num(Infinity)
    ELSE Num(a.n + b)

-----------------------------------------------------------------------------
(* Patterns, tracks and notes. *)

\* A property holding an array, a truthy value that is no array, or nothing.
Arr(items) == [tag |-> "array", items |-> items]

NoArr == [tag |-> "absent", items |-> <<>>]

NotAnArr == [tag |-> "other", items |-> <<>>]

\* A note object; trackLabel "" is a note that carries none yet.
Note(pitch, time, duration, velocity) ==
    [isNull |-> FALSE, pitch |-> pitch, time |-> time, duration |-> duration,
     velocity |-> velocity, trackLabel |-> ""]

\* null where a note or an event object is expected.
NullNote ==
    [isNull |-> TRUE, pitch |-> Absent, time |-> Absent, duration |-> Absent,
     velocity |-> Absent, trackLabel |-> ""]

\* {...undefined} or {...null}: an object with none of a note's properties.
EmptyObject ==
    [isNull |-> FALSE, pitch |-> Absent, time |-> Absent, duration |-> Absent,
     velocity |-> Absent, trackLabel |-> ""]

Track(label, notes) == [isNull |-> FALSE, label |-> label, notes |-> notes]

NullTrack == [isNull |-> TRUE, label |-> "", notes |-> NoArr]

\* A pattern object: format "" and tempo 0 stand for an absent property.
Pattern(format, tempo, tracks, events) ==
    [present |-> TRUE, format |-> format, tempo |-> tempo, tracks |-> tracks,
     events |-> events]

\* null or undefined where a pattern is expected.
NullPattern ==
    [present |-> FALSE, format |-> "", tempo |-> 0, tracks |-> NoArr, events |-> NoArr]

N4 == Str(<<"4", "n">>)

N8 == Str(<<"8", "n">>)

\* Two tracks, three notes at 0, 1, 2 (given out of time order), ending at 3.
PatternA ==
    Pattern("jmon", 120,
        Arr(<<Track("lead", Arr(<<Note(Num(60), Num(Q(0)), N4, Num(54)),
                                  Note(Num(64), Num(Q(2)), N4, Absent)>>)),
              Track("bass", Arr(<<Note(Num(36), Num(Q(1)), N4, Num(42))>>))>>),
        NoArr)

\* No tempo.  The first note (0 to 4) outlasts the last one (1 to 2).
PatternB ==
    Pattern("", 0,
        Arr(<<Track("pad", Arr(<<Note(Num(48), Num(Q(0)), Num(Q(4)), Absent),
                                 Note(Num(67), Num(Q(1)), N4, Absent)>>))>>),
        NoArr)

\* One note.
PatternC ==
    Pattern("jmon", 90,
        Arr(<<Track("solo", Arr(<<Note(Num(72), Str(<<"0", ":", "2">>), N8, Num(60))>>))>>),
        NoArr)

\* Tracks, and no note in them.
PatternEmpty == Pattern("jmon", 90, Arr(<<Track("rest", Arr(<<>>))>>), NoArr)

\* The legacy shape: events, no tracks.
PatternLegacy ==
    Pattern("", 90, NoArr,
        Arr(<<Note(Num(60), Num(Q(0)), N8, Absent), Note(Num(62), Num(Q(1)), N8, Absent)>>))

\* The legacy shape with its events given out of time order: 2, then 1.
PatternLegacyUnsorted ==
    Pattern("", 90, NoArr,
        Arr(<<Note(Num(60), Num(Q(2)), N8, Absent), Note(Num(62), Num(Q(1)), N8, Absent)>>))

\* Two tracks whose notes share their times: 1 and 0 in the first track, 0
\* and "0:1" (one beat) in the second.  One velocity is 0, one is 1.5.
PatternTies ==
    Pattern("jmon", 120,
        Arr(<<Track("a", Arr(<<Note(Num(60), Num(Q(1)), N4, Num(0)),
                               Note(Num(62), Num(Q(0)), N4, Num(90))>>)),
              Track("b", Arr(<<Note(Num(64), Num(Q(0)), N4, Absent),
                               Note(Num(65), Str(<<"0", ":", "1">>), N4, Num(30))>>))>>),
        NoArr)

\* A pattern of the test function's kind: tempo 120, one track "m", two
\* quarter notes at 0 and 1, the second without a velocity.
PatternExample ==
    Pattern("", 120,
        Arr(<<Track("m", Arr(<<Note(Num(60), Num(Q(0)), N4, Num(54)),
                               Note(Num(64), Num(Q(1)), N4, Absent)>>))>>),
        NoArr)

\* The legacy shape with a bars:beats time, and a time 0 at the second place.
PatternLegacyTimes ==
    Pattern("", 90, NoArr,
        Arr(<<Note(Num(60), Str(<<"0", ":", "2">>), N8, Absent),
              Note(Num(62), Num(Q(0)), N8, Absent)>>))

\* tracks is a truthy value that is no array (an object, a number).
PatternTracksNotArray == Pattern("", 90, NotAnArr, NoArr)

\* One note of negative duration: from 0 to -1.
PatternNegative ==
    Pattern("jmon", 120,
        Arr(<<Track("neg", Arr(<<Note(Num(60), Num(Q(0)), Num(-60), Absent)>>))>>),
        NoArr)

\* Declares the format, and has neither tracks nor events.
PatternFormatOnly == Pattern("jmon", 90, NoArr, NoArr)

\* Neither tracks nor events, and no format.
PatternShapeless == Pattern("", 90, NoArr, NoArr)

\* The patterns with neither tracks nor events, and no pattern at all.
Malformed == {PatternFormatOnly, PatternShapeless, NullPattern}

\* The patterns a caller sends.
Patterns ==
    {PatternA, PatternB, PatternC, PatternEmpty, PatternLegacy,
     PatternLegacyUnsorted, PatternTies, PatternExample, PatternLegacyTimes,
     PatternTracksNotArray, PatternNegative} \cup Malformed

-----------------------------------------------------------------------------
(* The Session class.  Each method is an operator from the session (and the   *)
(* arguments) to the session after the call, with what the call returned and  *)
(* whether it threw.                                                          *)

\* player.js:7: session = null.
NoSession ==
    [exists |-> FALSE, pattern |-> NullPattern, flattenedNotes |-> <<>>,
     position |-> 0, eventsPlayed |-> 0, tempo |-> 0, startTime |-> 0,
     loopDuration |-> Num(0)]

\* new Session().
NewSession ==
    [exists |-> TRUE, pattern |-> NullPattern, flattenedNotes |-> <<>>,
     position |-> 0, eventsPlayed |-> 0, tempo |-> 120, startTime |-> 0,
     loopDuration |-> Num(0)]

\* newPattern.tempo || 120.
TempoOr120(p) == IF p.tempo # 0 THEN p.tempo ELSE 120

\* The notes one track pushes onto allNotes, each tagged with the track's label.
TrackNotes(track) ==
    IF track.notes.tag = "absent" \/ Len(track.notes.items) = 0 THEN <<>>
    ELSE [i \in 1..Len(track.notes.items) |->
             IF track.notes.items[i].isNull
             THEN [EmptyObject EXCEPT !.trackLabel = track.label]
             ELSE [track.notes.items[i] EXCEPT !.trackLabel = track.label]]

\* allNotes after the forEach over tracks.
RECURSIVE AllNotes(_)
AllNotes(tracks) ==
    IF tracks = <<>> THEN <<>> ELSE TrackNotes(Head(tracks)) \o AllNotes(Tail(tracks))

\* A sort that puts a note before the notes of its own time.
RECURSIVE InsertByTime_Unstable(_, _)
InsertByTime_Unstable(sorted, note) ==
    IF sorted = <<>> THEN <<note>>
    ELSE IF parseTime(sorted[Len(sorted)].time) < parseTime(note.time)
    THEN Append(sorted, note)
    ELSE Append(InsertByTime_Unstable(SubSeq(sorted, 1, Len(sorted) - 1), note),
                sorted[Len(sorted)])

\* Array.prototype.sort with the comparator parseTime(a.time) - parseTime(b.time):
\* a stable sort, here by insertion after the last element that is not later.
RECURSIVE InsertByTime(_, _)
InsertByTime(sorted, note) ==
    IF sorted = <<>> THEN <<note>>
    ELSE IF parseTime(sorted[Len(sorted)].time) <= parseTime(note.time)
    THEN Append(sorted, note)
    ELSE Append(InsertByTime(SubSeq(sorted, 1, Len(sorted) - 1), note), sorted[Len(sorted)])

RECURSIVE SortByTime(_)
SortByTime(notes) ==
    IF notes = <<>> THEN <<>>
    ELSE InsertByTime(SortByTime(SubSeq(notes, 1, Len(notes) - 1)), notes[Len(notes)])

\* Whether flattenJMONTracks throws a TypeError: tracks is no array, a track is
\* null, or a track's notes is a truthy value that is no array.
FlattenThrows(tracks) ==
    \/ tracks.tag = "other"
    \/ /\ tracks.tag = "array"
       /\ \E i \in 1..Len(tracks.items) :
              \/ tracks.items[i].isNull
              \/ tracks.items[i].notes.tag = "other"

\* Session.flattenJMONTracks (when it does not throw): every note of every
\* track, sorted by time, each time normalised to a number of ticks.
flattenJMONTracks(tracks) ==
    IF tracks.tag = "absent" \/ Len(tracks.items) = 0 THEN <<>>
    ELSE LET sorted == SortByTime(AllNotes(tracks.items))
         IN  [i \in 1..Len(sorted) |->
                 [sorted[i] EXCEPT !.time = Num(parseTime(sorted[i].time))]]

\* Whether the legacy branch's events.map throws a TypeError: events is no
\* array, or an event is null.
LegacyThrows(events) ==
    \/ events.tag = "other"
    \/ \E i \in 1..Len(events.items) : events.items[i].isNull

\* The legacy branch's map: time is event.time || index, trackLabel 'main'.
LegacyNotes(events) ==
    [i \in 1..Len(events.items) |->
        [events.items[i] EXCEPT
            !.time = IF Truthy(events.items[i].time) THEN events.items[i].time
                     ELSE Num(Q(i - 1)),
            !.trackLabel = "main"]]

\* A loop duration that adds the last note's end to the one it had.
LoopDurationAfter_Accumulating(s) ==
    IF Len(s.flattenedNotes) > 0
    THEN LET lastNote == s.flattenedNotes[Len(s.flattenedNotes)]
         IN  jsAdd(s.loopDuration,
                   parseTime(lastNote.time) + parseDuration(lastNote.duration, s.tempo))
    ELSE s.loopDuration

\* "Calculate total loop duration": from the last note, when there is one.
LoopDurationAfter(s) ==
    IF Len(s.flattenedNotes) > 0
    THEN LET lastNote == s.flattenedNotes[Len(s.flattenedNotes)]
         IN  jsAdd(lastNote.time, parseDuration(lastNote.duration, s.tempo))
    ELSE s.loopDuration

\* A setPattern that resets the counters whatever the flag.
ResetIf_Always(s, resetPosition) == [s EXCEPT !.position = 0, !.eventsPlayed = 0]

\* "if (resetPosition)".
ResetIf(s, resetPosition) ==
    IF resetPosition THEN [s EXCEPT !.position = 0, !.eventsPlayed = 0] ELSE s

\* The tail of setPattern, after a branch has set pattern, tempo and flattenedNotes.
FinishSetPattern(s, resetPosition) ==
    ResetIf([s EXCEPT !.loopDuration = LoopDurationAfter(s)], resetPosition)

\* Session.setPattern(newPattern, resetPosition).
setPattern(s, newPattern, resetPosition) ==
    IF ~newPattern.present THEN [s |-> s, threw |-> FALSE]
    ELSE IF newPattern.format = "jmon" \/ newPattern.tracks.tag # "absent"
    THEN LET s1 == [s EXCEPT !.pattern = newPattern, !.tempo = TempoOr120(newPattern)]
         IN  IF FlattenThrows(newPattern.tracks) THEN [s |-> s1, threw |-> TRUE]
             ELSE [s |-> FinishSetPattern(
                             [s1 EXCEPT !.flattenedNotes =
                                 flattenJMONTracks(newPattern.tracks)],
                             resetPosition),
                   threw |-> FALSE]
    ELSE IF newPattern.events.tag # "absent"
    THEN LET s1 == [s EXCEPT !.pattern = newPattern, !.tempo = TempoOr120(newPattern)]
         IN  IF LegacyThrows(newPattern.events) THEN [s |-> s1, threw |-> TRUE]
             ELSE [s |-> FinishSetPattern(
                             [s1 EXCEPT !.flattenedNotes = LegacyNotes(newPattern.events)],
                             resetPosition),
                   threw |-> FALSE]
    ELSE [s |-> s, threw |-> FALSE]

\* Whether setPattern takes one of its two accepting branches.
Accepted(newPattern) ==
    /\ newPattern.present
    /\ \/ newPattern.format = "jmon"
       \/ newPattern.tracks.tag # "absent"
       \/ newPattern.events.tag # "absent"

\* What next() returns: null, or an object spreading the event it read.
NullResult == [kind |-> "null", event |-> EmptyObject, position |-> 0]

\* this.flattenedNotes[this.position]: undefined beyond the end of the array.
EventAt(s) ==
    IF s.position < Len(s.flattenedNotes) THEN s.flattenedNotes[s.position + 1]
    ELSE EmptyObject

\* Session.next(time).
next(s) ==
    IF Len(s.flattenedNotes) = 0 THEN [s |-> s, result |-> NullResult]
    ELSE LET s1 == [s EXCEPT !.position = (s.position + 1) % Len(s.flattenedNotes),
                             !.eventsPlayed = s.eventsPlayed + 1]
         IN  [s |-> s1,
              result |-> [kind |-> "object", event |-> EventAt(s),
                          position |-> s1.position]]

\* A reset that also empties the timeline.
reset_Clearing(s) ==
    [s EXCEPT !.position = 0, !.eventsPlayed = 0, !.startTime = 0,
              !.flattenedNotes = <<>>, !.loopDuration = Num(0)]

\* Session.reset().
reset(s) == [s EXCEPT !.position = 0, !.eventsPlayed = 0, !.startTime = 0]

-----------------------------------------------------------------------------
(* The generative playground (the script in src/README.md): its pattern      *)
(* generators reduced to which steps sound, and its state object.  A step of  *)
(* a pattern is TRUE for a note and FALSE for a rest.                         *)

\* The largest total euclideanRhythm is called with.
MaxTotal == 8

\* The sequence seq repeated k times.
RECURSIVE Repeat(_, _)
Repeat(seq, k) == IF k <= 0 THEN <<>> ELSE seq \o Repeat(seq, k - 1)

\* new Array(total).fill(value).
Filled(total, value) == [i \in 1..total |-> value]

\* euclideanRhythm's while loop, from the state it has reached: counts and
\* remainders grow by one per turn; afterwards counts.push(divisor).
RECURSIVE EuclidLevels(_, _, _, _)
EuclidLevels(counts, remainders, divisor, level) ==
    IF remainders[level + 1] > 1
    THEN EuclidLevels(Append(counts, divisor \div remainders[level + 1]),
                      Append(remainders, divisor % remainders[level + 1]),
                      remainders[level + 1], level + 1)
    ELSE [counts |-> Append(counts, divisor), remainders |-> remainders, level |-> level]

\* A build that pushes true where the code pushes false, and false for true.
RECURSIVE build_Inverted(_, _, _)
build_Inverted(level, counts, remainders) ==
    IF level = -1 THEN <<TRUE>>
    ELSE IF level = -2 THEN <<FALSE>>
    ELSE Repeat(build_Inverted(level - 1, counts, remainders), counts[level + 1])
         \o (IF remainders[level + 1] # 0
             THEN build_Inverted(level - 2, counts, remainders) ELSE <<>>)

\* euclideanRhythm's build(level): what it pushes onto pattern, in order.
RECURSIVE build(_, _, _)
build(level, counts, remainders) ==
    IF level = -1 THEN <<FALSE>>
    ELSE IF level = -2 THEN <<TRUE>>
    ELSE Repeat(build(level - 1, counts, remainders), counts[level + 1])
         \o (IF remainders[level + 1] # 0
             THEN build(level - 2, counts, remainders) ELSE <<>>)

\* pattern.slice(0, total).
Slice(seq, total) == SubSeq(seq, 1, IF Len(seq) < total THEN Len(seq) ELSE total)

\* euclideanRhythm(hits, total).
euclideanRhythm(hits, total) ==
    IF hits >= total THEN Filled(total, TRUE)
    ELSE IF hits = 0 THEN Filled(total, FALSE)
    ELSE LET l == EuclidLevels(<<>>, <<hits>>, total - hits, 0)
         IN  Slice(build(l.level, l.counts, l.remainders), total)

\* state.seed, by what seededRandom(seed) makes of it: a generator whose draw
\* for a step falls below one half on the odd steps, or on the even ones.
Seeds == {"odd", "even"}

\* Whether rng() < 0.5 at step i (counted from 1) under a seed.
DrawIsLow(seed, i) == IF seed = "odd" THEN i % 2 = 1 ELSE i % 2 = 0

\* The densities of the model, in halves: 0, 0.5 and 1.
Densities == {0, 1, 2}

\* The pattern lengths of the model: the initial 8, and 2 and 3.
Lengths == {2, 3, 8}

\* generateArpeggio: step i is a note when rng() < density.
generateArpeggio(length, density, seed) ==
    [i \in 1..length |->
        CASE density = 0 -> FALSE
          [] density = 2 -> TRUE
          [] OTHER -> DrawIsLow(seed, i)]

\* generateEuclidean: hits = Math.floor(length * density).
generateEuclidean(length, density) == euclideanRhythm((length * density) \div 2, length)

\* generatePattern(type, params), for two of its five types: the one the page
\* starts with and the one that calls euclideanRhythm.
generatePattern(type, length, density, seed) ==
    IF type = "euclidean" THEN generateEuclidean(length, density)
    ELSE generateArpeggio(length, density, seed)

\* The playground's state object and loop when its script has run.
PlaygroundInit ==
    [isPlaying |-> FALSE, isMuted |-> FALSE, stepIndex |-> 0, seed |-> "odd",
     pattern |-> "arpeggio", length |-> 8, density |-> 1, randomnessHigh |-> FALSE,
     currentPattern |-> <<>>, loop |-> "none"]

\* refreshPattern().
refreshPattern(pg) ==
    [pg EXCEPT !.currentPattern = generatePattern(pg.pattern, pg.length, pg.density, pg.seed)]

\* startPlayback().
startPlayback(pg) ==
    IF pg.isPlaying THEN pg
    ELSE [refreshPattern(pg) EXCEPT !.stepIndex = 0, !.loop = "started", !.isPlaying = TRUE]

\* stopPlayback().
stopPlayback(pg) ==
    IF ~pg.isPlaying THEN pg
    ELSE [pg EXCEPT !.loop = IF pg.loop = "none" THEN "none" ELSE "disposed",
                    !.isPlaying = FALSE, !.stepIndex = 0]

\* toggleMute().
toggleMute(pg) == [pg EXCEPT !.isMuted = ~pg.isMuted]

\* reroll(), the new Math.random() seed given.
reroll(pg, seed) == refreshPattern([pg EXCEPT !.seed = seed])

\* (stepIndex + 1) % currentPattern.length.
NextStep(pg) == (pg.stepIndex + 1) % Len(pg.currentPattern)

\* A loop callback that returns at once when muted.
LoopTick_Frozen(pg) ==
    IF pg.isMuted THEN [pg |-> pg, rendered |-> FALSE]
    ELSE LET pg1 == [pg EXCEPT !.stepIndex = NextStep(pg)]
         IN  [pg |-> IF pg1.stepIndex = 0 /\ pg.randomnessHigh THEN refreshPattern(pg1)
                     ELSE pg1,
              rendered |-> pg.stepIndex < Len(pg.currentPattern)
                             /\ pg.currentPattern[pg.stepIndex + 1]]

\* The Tone.Loop's callback: the state afterwards, and whether
\* synth.triggerAttackRelease was called.
LoopTick(pg) ==
    IF pg.isMuted
    THEN [pg |-> [pg EXCEPT !.stepIndex = NextStep(pg)], rendered |-> FALSE]
    ELSE LET pg1 == [pg EXCEPT !.stepIndex = NextStep(pg)]
         IN  [pg |-> IF pg1.stepIndex = 0 /\ pg.randomnessHigh THEN refreshPattern(pg1)
                     ELSE pg1,
              rendered |-> pg.stepIndex < Len(pg.currentPattern)
                             /\ pg.currentPattern[pg.stepIndex + 1]]

-----------------------------------------------------------------------------
(* The state before anything has run. *)

\* player.js:9: part = null.  The field live counts the Parts that have been
\* created and not disposed.
NoPart ==
    [exists |-> FALSE, events |-> <<>>, loopEnd |-> Num(0), state |-> "stopped",
     live |-> 0]

\* What lastCall records of an operation.
Call(op, arg, resetPosition, threw, result) ==
    [op |-> op, arg |-> arg, reset |-> resetPosition, threw |-> threw, result |-> result]

\* player.js:7-12, before the page's first event.
PlayerInit ==
    /\ synth = FALSE
    /\ part = NoPart
    /\ isInitialized = FALSE
    /\ pendingPattern = NullPattern
    /\ transport = [state |-> "stopped", bpm |-> 120]
    /\ awaiting = <<>>
    /\ status = ""
    /\ stopRequested = FALSE
    /\ playground = PlaygroundInit

-----------------------------------------------------------------------------
(* The Session on its own: a caller that holds a Session and calls its        *)
(* methods in any order.                                                      *)

SessionInit ==
    /\ PlayerInit
    /\ session = NewSession
    /\ lastCall = Call("new", NullPattern, FALSE, FALSE, NullResult)

CallSetPattern(p, resetPosition) ==
    LET r == setPattern(session, p, resetPosition)
    IN  /\ session' = r.s
        /\ lastCall' = Call("setPattern", p, resetPosition, r.threw, NullResult)
        /\ UNCHANGED playerVars

CallNext ==
    /\ session.eventsPlayed < MaxEvents
    /\ LET r == next(session)
       IN  /\ session' = r.s
           /\ lastCall' = Call("next", NullPattern, FALSE, FALSE, r.result)
    /\ UNCHANGED playerVars

CallReset ==
    /\ session' = reset(session)
    /\ lastCall' = Call("reset", NullPattern, FALSE, FALSE, NullResult)
    /\ UNCHANGED playerVars

SessionNext ==
    \/ \E p \in Patterns, resetPosition \in BOOLEAN : CallSetPattern(p, resetPosition)
    \/ CallNext
    \/ CallReset

SessionSpec == SessionInit /\ [][SessionNext]_vars

-----------------------------------------------------------------------------
(* The Session's conversions, called on a session whose tempo the patterns   *)
(* set: parseDuration, parseTime and quarterNotesToSeconds.                   *)

Chars(a, b, c) == Str(<<a, b, c>>)

\* The durations a caller passes: numbers below, at and above 10, absent, the
\* empty string, note values, a triplet, bars:beats, and another string.
Durations ==
    {Num(0), Num(-60), Num(30), Num(Q(2)), Num(570), Num(Q(10)), Num(Q(12)),
     Absent, Str(<<>>), N4, N8, Str(<<"1", "6", "n">>), Str(<<"1", "n">>),
     Str(<<"8", "t">>), Str(<<"0", "n">>), Str(<<"0", "t">>),
     Chars("1", ":", "2"), Chars("a", "b", "c"), Chars("4", "n", "n")}

\* The times a caller passes: numbers, absent, bars:beats with and without
\* ticks or a fractional beat, a note value, and another string.
Times ==
    {Num(0), Num(Q(3)), Num(-60), Num(90), Absent,
     Chars("2", ":", "1"), Str(<<"2", ":", "1", ":", "3">>),
     Str(<<"1", ":", "2", ".", "5">>), Chars("x", ":", "y"), Str(<<"3", ":">>),
     N4, Chars("a", "b", "c"), Str(<<>>)}

\* The quarter-note counts a caller converts to seconds: 0, 1, 1.5, 2, 4.
QuarterNotes == {Q(0), Q(1), 90, Q(2), Q(4)}

CallParseDuration(duration) ==
    /\ lastCall' = Call("parseDuration", duration, FALSE, FALSE,
                        Num(parseDuration(duration, session.tempo)))
    /\ UNCHANGED <<session, playerVars>>

CallParseTime(time) ==
    /\ lastCall' = Call("parseTime", time, FALSE, FALSE, Num(parseTime(time)))
    /\ UNCHANGED <<session, playerVars>>

CallQuarterNotesToSeconds(quarterNotes) ==
    /\ lastCall' = Call("quarterNotesToSeconds", Num(quarterNotes), FALSE, FALSE,
                        Num(quarterNotesToSeconds(quarterNotes, session.tempo)))
    /\ UNCHANGED <<session, playerVars>>

ConversionNext ==
    \/ \E p \in {PatternExample, PatternC} : CallSetPattern(p, TRUE)
    \/ \E duration \in Durations : CallParseDuration(duration)
    \/ \E time \in Times : CallParseTime(time)
    \/ \E quarterNotes \in QuarterNotes : CallQuarterNotesToSeconds(quarterNotes)

ConversionSpec == SessionInit /\ [][ConversionNext]_vars

-----------------------------------------------------------------------------
(* The playground page: its four buttons, the sliders and the select that     *)
(* regenerate the pattern, the Tone.Loop callback, which fires on every       *)
(* eighth note while the loop is started, and euclideanRhythm called on its   *)
(* own.  The player's variables stay as they are.                             *)

pageVars == <<session, synth, part, isInitialized, pendingPattern, transport, awaiting,
              status, stopRequested>>

\* What a playground operation leaves in lastCall.
PgCall(op, arg, result) == Call(op, arg, FALSE, FALSE, result)

ClickStartBtn ==
    /\ playground' = startPlayback(playground)
    /\ lastCall' = PgCall("startPlayback", <<>>, [kind |-> "null"])
    /\ UNCHANGED pageVars

ClickStopBtn ==
    /\ playground' = stopPlayback(playground)
    /\ lastCall' = PgCall("stopPlayback", <<>>, [kind |-> "null"])
    /\ UNCHANGED pageVars

ClickMuteBtn ==
    /\ playground' = toggleMute(playground)
    /\ lastCall' = PgCall("toggleMute", <<>>, [kind |-> "null"])
    /\ UNCHANGED pageVars

ClickRerollBtn(seed) ==
    /\ playground' = reroll(playground, seed)
    /\ lastCall' = PgCall("reroll", <<>>, [kind |-> "null"])
    /\ UNCHANGED pageVars

ChangePatternSelect(type) ==
    /\ playground' = refreshPattern([playground EXCEPT !.pattern = type])
    /\ lastCall' = PgCall("patternSelect", <<>>, [kind |-> "null"])
    /\ UNCHANGED pageVars

InputDensitySlider(v) ==
    /\ playground' = refreshPattern([playground EXCEPT !.density = v])
    /\ lastCall' = PgCall("densitySlider", <<>>, [kind |-> "null"])
    /\ UNCHANGED pageVars

InputRandomnessSlider(high) ==
    /\ playground' = refreshPattern([playground EXCEPT !.randomnessHigh = high])
    /\ lastCall' = PgCall("randomnessSlider", <<>>, [kind |-> "null"])
    /\ UNCHANGED pageVars

InputLengthSlider(v) ==
    /\ playground' = refreshPattern([playground EXCEPT !.length = v])
    /\ lastCall' = PgCall("lengthSlider", <<>>, [kind |-> "null"])
    /\ UNCHANGED pageVars

\* The loop's callback fires.
LoopCallback ==
    /\ playground.loop = "started"
    /\ LET r == LoopTick(playground)
       IN  /\ playground' = r.pg
           /\ lastCall' = PgCall("tick", <<>>,
                                 [kind |-> IF r.rendered THEN "rendered" ELSE "null"])
    /\ UNCHANGED pageVars

CallEuclideanRhythm(hits, total) ==
    /\ lastCall' = PgCall("euclideanRhythm", <<hits, total>>,
                          [kind |-> "rhythm", rhythm |-> euclideanRhythm(hits, total)])
    /\ UNCHANGED <<session, playerVars>>

PlaygroundNext ==
    \/ ClickStartBtn
    \/ ClickStopBtn
    \/ ClickMuteBtn
    \/ \E seed \in Seeds : ClickRerollBtn(seed)
    \/ \E type \in {"arpeggio", "euclidean"} : ChangePatternSelect(type)
    \/ \E v \in Densities : InputDensitySlider(v)
    \/ \E high \in BOOLEAN : InputRandomnessSlider(high)
    \/ \E v \in Lengths : InputLengthSlider(v)
    \/ LoopCallback
    \/ \E total \in 1..MaxTotal : \E hits \in 0..total : CallEuclideanRhythm(hits, total)

PlaygroundSpec == SessionInit /\ [][PlaygroundNext]_vars

-----------------------------------------------------------------------------
(* The player: the message handler, the two buttons, initializePlayer and the *)
(* Tone.Part callback.  Tone.js is outside the repository: a Part is its list *)
(* of events, its loopEnd and whether it is started; a started Part fires its *)
(* callback, for any of its events, while the Transport runs.  The Transport  *)
(* position is not modelled (assigning 0 to it changes nothing here), nor is  *)
(* messageCount, which is only logged.                                        *)

\* The patterns 'update' messages carry; NullPattern is a message without one.
Updates == {PatternA, PatternB, PatternEmpty, PatternShapeless, NullPattern}

\* The tempo values a 'setTempo' message carries; 0 is a message without one.
Tempos == {0, 100}

\* session.loopDuration || 4.
PatternDuration(s) == IF Truthy(s.loopDuration) THEN s.loopDuration ELSE Num(Q(4))

\* events[i].time = note.time: the offset the Part is given for its i-th event.
EventTime(pt, i) == pt.events[i].time

\* A schedulePattern that keeps the Part and adds the new events to it.
schedulePattern_Adding(s, pt) ==
    IF ~s.exists \/ Len(s.flattenedNotes) = 0 THEN pt
    ELSE [exists |-> TRUE, events |-> pt.events \o s.flattenedNotes,
          loopEnd |-> PatternDuration(s), state |-> "started", live |-> 1]

\* A schedulePattern that builds the new Part and leaves the old one alive.
schedulePattern_NoDispose(s, pt) ==
    IF ~s.exists \/ Len(s.flattenedNotes) = 0 THEN pt
    ELSE [exists |-> TRUE, events |-> s.flattenedNotes,
          loopEnd |-> PatternDuration(s), state |-> "started", live |-> pt.live + 1]

\* schedulePattern(): the Part afterwards.  The old Part, if any, is stopped
\* and disposed, and the new one takes its place in the variable.
schedulePattern(s, pt) ==
    IF ~s.exists \/ Len(s.flattenedNotes) = 0 THEN pt
    ELSE [exists |-> TRUE, events |-> s.flattenedNotes,
          loopEnd |-> PatternDuration(s), state |-> "started",
          live |-> (IF pt.exists THEN pt.live - 1 ELSE pt.live) + 1]

\* A handler that pauses the clock while it swaps the tempo in.
TransportAfterPattern_Pausing(tr, p) ==
    IF p.tempo # 0 THEN [tr EXCEPT !.bpm = p.tempo, !.state = "stopped"] ELSE tr

\* "Update Tone.Transport tempo if pattern specifies it".
TransportAfterPattern(tr, p) == IF p.tempo # 0 THEN [tr EXCEPT !.bpm = p.tempo] ELSE tr

\* Tone.Transport.start().
TransportStart(tr) == [tr EXCEPT !.state = "started"]

\* What a handler records when its call of schedulePattern() went past the
\* "No pattern to schedule" return: the old Part disposed, a new one built.
ScheduledResult == [kind |-> "scheduled", event |-> EmptyObject, position |-> 0]

\* Whether schedulePattern() builds a Part for this session.
Schedules(s) == s.exists /\ Len(s.flattenedNotes) > 0

\* session.setPattern(p), the Transport's tempo, schedulePattern(), status:
\* the sequence the 'update' handler and the Start button share.  A throw in
\* setPattern ends the handler there.
ApplyPattern(s, tr, pt, st, p) ==
    LET r == setPattern(s, p, TRUE)
    IN  IF r.threw
        THEN [session |-> r.s, transport |-> tr, part |-> pt, status |-> st, threw |-> TRUE,
              result |-> NullResult]
        ELSE [session |-> r.s, transport |-> TransportAfterPattern(tr, p),
              part |-> schedulePattern(r.s, pt), status |-> "running", threw |-> FALSE,
              result |-> IF Schedules(r.s) THEN ScheduledResult ELSE NullResult]

\* case 'update'.
MsgUpdate(p) ==
    IF ~isInitialized
    THEN /\ pendingPattern' = p
         /\ status' = "ready (press Start)"
         /\ lastCall' = Call("update", p, TRUE, FALSE, NullResult)
         /\ UNCHANGED <<session, synth, part, isInitialized, transport, awaiting,
                        stopRequested, playground>>
    ELSE IF session.exists /\ p.present
    THEN LET r == ApplyPattern(session, transport, part, status, p)
         IN  /\ session' = r.session
             /\ transport' = r.transport
             /\ part' = r.part
             /\ status' = r.status
             /\ lastCall' = Call("update", p, TRUE, r.threw, r.result)
             /\ UNCHANGED <<synth, isInitialized, pendingPattern, awaiting, stopRequested,
                            playground>>
    ELSE /\ lastCall' = Call("update", p, TRUE, FALSE, NullResult)
         /\ UNCHANGED <<session, playerVars>>

\* initializePlayer() up to its await: a new Session and a new synth; the
\* handler that called it is suspended.
InitializeBegin(handler) ==
    /\ Len(awaiting) < MaxAwaiting
    /\ session' = NewSession
    /\ synth' = TRUE
    /\ awaiting' = Append(awaiting, handler)
    /\ lastCall' = Call(handler \o ":await", NullPattern, FALSE, FALSE, NullResult)
    /\ UNCHANGED <<part, isInitialized, pendingPattern, transport, status, stopRequested,
                   playground>>

\* case 'start'.
MsgStart ==
    IF ~isInitialized THEN InitializeBegin("start")
    ELSE /\ status' = "running"
         /\ stopRequested' = FALSE
         /\ lastCall' = Call("start", NullPattern, FALSE, FALSE, NullResult)
         /\ UNCHANGED <<session, synth, part, isInitialized, pendingPattern, transport,
                        awaiting, playground>>

\* The Start button's handler after "Initialize audio if not yet initialized",
\* run with the Transport and the status as they are at that point.
StartButtonBody(tr, st) ==
    IF pendingPattern.present
    THEN LET r == ApplyPattern(session, tr, part, st, pendingPattern)
         IN  /\ session' = r.session
             /\ transport' = r.transport
             /\ part' = r.part
             /\ status' = r.status
             /\ pendingPattern' = IF r.threw THEN pendingPattern ELSE NullPattern
             /\ lastCall' = Call("clickStart", pendingPattern, TRUE, r.threw, r.result)
    ELSE IF session.exists /\ Len(session.flattenedNotes) > 0
    THEN /\ part' = schedulePattern(session, part)
         /\ status' = "running"
         /\ transport' = tr
         /\ lastCall' = Call("clickStart", NullPattern, FALSE, FALSE, ScheduledResult)
         /\ UNCHANGED <<session, pendingPattern>>
    ELSE /\ status' = "ready (waiting for pattern)"
         /\ transport' = tr
         /\ lastCall' = Call("clickStart", NullPattern, FALSE, FALSE, NullResult)
         /\ UNCHANGED <<session, part, pendingPattern>>

\* The Start button.
ClickStart ==
    IF ~isInitialized THEN InitializeBegin("clickStart")
    ELSE /\ StartButtonBody(transport, status)
         /\ UNCHANGED <<synth, isInitialized, awaiting, stopRequested, playground>>

\* awaiting without its i-th element.
Without(seq, i) == SubSeq(seq, 1, i - 1) \o SubSeq(seq, i + 1, Len(seq))

\* Tone.start() resolves for one suspended handler: initializePlayer finishes
\* (Transport started, isInitialized set, status 'ready') and the handler
\* that awaited it runs to its end.
InitializeResume(i) ==
    /\ i \in 1..Len(awaiting)
    /\ awaiting' = Without(awaiting, i)
    /\ isInitialized' = TRUE
    /\ IF awaiting[i] = "start"
       THEN /\ transport' = TransportStart(transport)
            /\ status' = "running"
            /\ stopRequested' = FALSE
            /\ lastCall' = Call("start", NullPattern, FALSE, FALSE, NullResult)
            /\ UNCHANGED <<session, part, pendingPattern>>
       ELSE /\ StartButtonBody(TransportStart(transport), "ready")
            /\ UNCHANGED stopRequested
    /\ UNCHANGED <<synth, playground>>

\* case 'stop': the test "if (loop)" reads a variable player.js never
\* declares, a ReferenceError; nothing after it runs.
MsgStop ==
    /\ stopRequested' = (isInitialized /\ part.exists /\ part.state = "started")
    /\ lastCall' = Call("stop", NullPattern, FALSE, TRUE, NullResult)
    /\ UNCHANGED <<session, synth, part, isInitialized, pendingPattern, transport,
                   awaiting, status, playground>>

\* case 'resume': the same undeclared variable, the same ReferenceError.
MsgResume ==
    /\ stopRequested' = FALSE
    /\ lastCall' = Call("resume", NullPattern, FALSE, TRUE, NullResult)
    /\ UNCHANGED <<session, synth, part, isInitialized, pendingPattern, transport,
                   awaiting, status, playground>>

\* case 'reset'.
MsgReset ==
    /\ session' = IF session.exists THEN reset(session) ELSE session
    /\ lastCall' = Call("reset", NullPattern, FALSE, FALSE, NullResult)
    /\ UNCHANGED playerVars

\* A handler that sets the tempo and restarts the counters with it.
SessionWithTempo_Resetting(s, tempo) == reset([s EXCEPT !.tempo = tempo])

\* session.tempo = event.data.tempo.
SessionWithTempo(s, tempo) == [s EXCEPT !.tempo = tempo]

\* case 'setTempo'.
MsgSetTempo(tempo) ==
    /\ IF session.exists /\ tempo # 0
       THEN /\ session' = SessionWithTempo(session, tempo)
            /\ transport' = [transport EXCEPT !.bpm = tempo]
       ELSE UNCHANGED <<session, transport>>
    /\ lastCall' = Call("setTempo", [NullPattern EXCEPT !.tempo = tempo], FALSE, FALSE,
                        NullResult)
    /\ UNCHANGED <<synth, part, isInitialized, pendingPattern, awaiting, status,
                   stopRequested, playground>>

\* A switch whose default case runs the 'reset' case.
MsgIgnored_AsReset ==
    /\ session' = IF session.exists THEN reset(session) ELSE session
    /\ lastCall' = Call("ignored", NullPattern, FALSE, FALSE, NullResult)
    /\ UNCHANGED playerVars

\* A message with no data, no type, or a type the switch does not know.
MsgIgnored ==
    /\ lastCall' = Call("ignored", NullPattern, FALSE, FALSE, NullResult)
    /\ UNCHANGED <<session, playerVars>>

\* The Stop button.
ClickStop ==
    /\ part' = IF part.exists THEN [part EXCEPT !.state = "stopped"] ELSE part
    /\ session' = IF session.exists THEN reset(session) ELSE session
    /\ status' = "stopped"
    /\ lastCall' = Call("clickStop", NullPattern, FALSE, FALSE, NullResult)
    /\ UNCHANGED <<synth, isInitialized, pendingPattern, transport, awaiting,
                   stopRequested, playground>>

\* const velocity = event.velocity || 0.7: the velocity playEvent hands to
\* synth.triggerAttackRelease, in ticks.
Velocity(event) == IF Truthy(event.velocity) THEN event.velocity.n ELSE 42

\* A playEvent whose call of the synth is not wrapped: the error escapes.
playEvent_Unwrapped(event, hasSynth, renderThrows) ==
    IF event.isNull \/ ~hasSynth
    THEN [result |-> NullResult, threw |-> FALSE]
    ELSE IF renderThrows
    THEN [result |-> [kind |-> "renderFailed", event |-> event, position |-> 0],
          threw |-> TRUE]
    ELSE [result |-> [kind |-> "rendered", event |-> event, position |-> 0],
          threw |-> FALSE]

\* playEvent(event, time): what reaches synth.triggerAttackRelease, nothing
\* when there is no event or no synth.  The synth is outside the repository:
\* whether it throws for this event (a pitch it cannot resolve, say) is an
\* input; the try/catch around the call keeps the error inside playEvent.
playEvent(event, hasSynth, renderThrows) ==
    IF event.isNull \/ ~hasSynth
    THEN [result |-> NullResult, threw |-> FALSE]
    ELSE IF renderThrows
    THEN [result |-> [kind |-> "renderFailed", event |-> event, position |-> 0],
          threw |-> FALSE]
    ELSE [result |-> [kind |-> "rendered", event |-> event, position |-> 0],
          threw |-> FALSE]

\* The Part's callback fires for its i-th event: playEvent, then
\* session.eventsPlayed++ on whatever Session the variable holds now; an
\* error escaping playEvent ends the callback before the increment.
PartCallback(i, renderThrows) ==
    /\ part.exists /\ part.state = "started"
    /\ transport.state = "started"
    /\ i \in 1..Len(part.events)
    /\ session.exists
    /\ session.eventsPlayed < MaxEvents
    /\ LET r == playEvent(part.events[i], synth, renderThrows)
       IN  /\ session' = IF r.threw THEN session
                         ELSE [session EXCEPT !.eventsPlayed = session.eventsPlayed + 1]
           /\ lastCall' = Call("partCallback", NullPattern, FALSE, r.threw, r.result)
    /\ UNCHANGED playerVars

Init ==
    /\ PlayerInit
    /\ session = NoSession
    /\ lastCall = Call("load", NullPattern, FALSE, FALSE, NullResult)

Next ==
    \/ \E p \in Updates : MsgUpdate(p)
    \/ MsgStart
    \/ MsgStop
    \/ MsgResume
    \/ MsgReset
    \/ \E tempo \in Tempos : MsgSetTempo(tempo)
    \/ MsgIgnored
    \/ ClickStart
    \/ ClickStop
    \/ \E i \in 1..MaxAwaiting : InitializeResume(i)
    \/ \E i \in 1..Len(part.events), renderThrows \in BOOLEAN : PartCallback(i, renderThrows)

Spec == Init /\ [][Next]_vars

-----------------------------------------------------------------------------
(* Claims about the Session. *)

\* The timeline's length.
Length == Len(session.flattenedNotes)

\* C1: whenever the timeline is non-empty, 0 <= position < timeline length.
C1_PositionInRange ==
    Length > 0 => (0 <= session.position /\ session.position < Length)

\* C2: setPattern(patternB, false) does not throw, and the next() that follows
\* it returns patternB's event at index position mod patternB's length.
C2_HotSwapNextReadsNewTimeline ==
    [][/\ (lastCall'.op = "setPattern" /\ ~lastCall'.reset /\ Accepted(lastCall'.arg))
            => ~lastCall'.threw
       /\ (/\ lastCall.op = "setPattern" /\ ~lastCall.reset /\ Accepted(lastCall.arg)
           /\ Length > 0
           /\ lastCall'.op = "next")
            => /\ lastCall'.result.kind = "object"
               /\ lastCall'.result.event
                    = session.flattenedNotes[(session.position % Length) + 1]]_vars

\* C3: setPattern with a pattern that has neither tracks nor events, or with no
\* pattern, does not throw and leaves the whole session as it was.
C3_MalformedLeavesSessionUnchanged ==
    [][(lastCall'.op = "setPattern" /\ lastCall'.arg \in Malformed)
            => (session' = session /\ ~lastCall'.threw)]_vars

\* The end of an event: its time plus its duration, in ticks.
EndOf(e, tempo) == parseTime(e.time) + parseDuration(e.duration, tempo)

\* max(timeQ + durationQ) over the events of a non-empty timeline.
MaxEnd(notes, tempo) ==
    CHOOSE m \in {EndOf(notes[i], tempo) : i \in 1..Len(notes)} :
        \A i \in 1..Len(notes) : EndOf(notes[i], tempo) <= m

\* A step that is an accepted setPattern.
AcceptedSetPatternStep ==
    lastCall'.op = "setPattern" /\ Accepted(lastCall'.arg) /\ ~lastCall'.threw

\* C4: after an accepted setPattern with a non-empty timeline, the loop
\* duration is the maximum of timeQ + durationQ over the events.
C4_LoopDurationIsMaxEnd ==
    [][(AcceptedSetPatternStep /\ Len(session'.flattenedNotes) > 0)
            => session'.loopDuration
                 = Num(MaxEnd(session'.flattenedNotes, session'.tempo))]_vars

\* C5: after an accepted setPattern whose pattern has zero notes, the loop
\* duration is 0.
C5_EmptyPatternHasZeroLoopDuration ==
    [][(AcceptedSetPatternStep /\ Len(session'.flattenedNotes) = 0)
            => session'.loopDuration = Num(0)]_vars

-----------------------------------------------------------------------------
(* Claims about the player. *)

\* A schedule is registered with the clock: a Part exists and is started.
ScheduleRegistered == part.exists /\ part.state = "started"

\* A step in which an initialised player handles an 'update' whose pattern
\* setPattern accepts.
AcceptedUpdateStep ==
    /\ isInitialized
    /\ lastCall'.op = "update" /\ Accepted(lastCall'.arg) /\ ~lastCall'.threw

\* C6: when an 'update' delivers a pattern with zero notes to an initialised
\* player, no schedule is left registered afterwards.
C6_EmptyUpdateLeavesNoSchedule ==
    [][(AcceptedUpdateStep /\ Len(session'.flattenedNotes) = 0)
            => ~ScheduleRegistered']_vars

\* C7: once the player is initialised, an 'update' never stops the Transport:
\* after it the player is still initialised and the Transport is running.
C7_UpdateNeverStopsTransport ==
    [][(isInitialized /\ lastCall'.op = "update")
            => (isInitialized' /\ transport'.state = "started")]_vars

\* C7's case: an initialised player has replaced its pattern and its schedule
\* by an 'update', and the Transport runs.
C7_Witness ==
    /\ isInitialized /\ lastCall.op = "update"
    /\ session.pattern = PatternB /\ ScheduleRegistered
    /\ part.events = session.flattenedNotes
    /\ transport.state = "started"

\* C8: after a 'stop' is handled by an initialised player that plays a
\* pattern, no note callback fires until a 'start' or 'resume' is handled,
\* and the stop leaves the session as it was.
C8_StopPausesPlayback ==
    [][/\ stopRequested => lastCall'.op # "partCallback"
       /\ lastCall'.op = "stop" => session' = session]_vars

\* C9: after a 'start' or a 'resume' message is handled, the player is
\* initialised and the Transport is running.
C9_StartOrResumeInitialises ==
    lastCall.op \in {"start", "resume"} => (isInitialized /\ transport.state = "started")

\* C10: when the player becomes initialised, a pattern stored by an earlier
\* 'update' becomes the session's pattern and is scheduled.
C10_PendingPatternApplied ==
    [][(~isInitialized /\ isInitialized' /\ Accepted(pendingPattern))
            => /\ session'.pattern = pendingPattern
               /\ Len(session'.flattenedNotes) > 0
                    => (ScheduleRegistered' /\ part'.events = session'.flattenedNotes)]_vars

\* C11: handling 'setTempo' with a tempo value sets the tempo of the session
\* the player holds to that value and leaves the session's position,
\* eventsPlayed, pattern and timeline as they were.
C11_SetTempoSetsOnlyTempo ==
    [][(lastCall'.op = "setTempo" /\ lastCall'.arg.tempo # 0 /\ session.exists)
            => /\ session'.tempo = lastCall'.arg.tempo
               /\ session'.position = session.position
               /\ session'.eventsPlayed = session.eventsPlayed
               /\ session'.pattern = session.pattern
               /\ session'.flattenedNotes = session.flattenedNotes]_vars

\* C11's case: 'setTempo' has just given a new tempo to a session that holds
\* a pattern of another tempo and has counted played events.
C11_Witness ==
    /\ lastCall.op = "setTempo" /\ lastCall.arg.tempo = 100
    /\ session.exists /\ session.tempo = 100
    /\ session.pattern = PatternA /\ Len(session.flattenedNotes) = 3
    /\ session.eventsPlayed > 0

\* C12: whenever 'setTempo' with a tempo value is handled while a non-empty
\* pattern is scheduled, the handler tears the schedule down and builds a new
\* one from the timeline.
C12_SetTempoReschedules ==
    [][(/\ lastCall'.op = "setTempo" /\ lastCall'.arg.tempo # 0
        /\ session.exists /\ Len(session.flattenedNotes) > 0
        /\ ScheduleRegistered)
            => lastCall'.result = ScheduledResult]_vars

\* C13: a message with an unrecognised type or with no type changes neither
\* the session, nor the pending pattern, nor the registered schedule, nor the
\* initialised flag.
C13_UnknownMessageIgnored ==
    [][lastCall'.op = "ignored"
            => UNCHANGED <<session, pendingPattern, part, isInitialized>>]_vars

\* C13's case: an unknown message has been handled by an initialised player
\* that plays a pattern and has counted played events.
C13_Witness ==
    /\ lastCall.op = "ignored"
    /\ isInitialized /\ ScheduleRegistered
    /\ session.pattern = PatternA /\ session.eventsPlayed > 0

\* The command types of the message protocol.
Commands == {"update", "start", "resume", "stop", "reset", "setTempo"}

\* C14: whatever the player's state, the handler of a command message
\* completes without raising an error.
C14_NoCommandRaises ==
    lastCall.op \in Commands => ~lastCall.threw

\* C15: when the synth throws for an event, the scheduled callback still
\* completes, eventsPlayed is incremented for that firing, and the schedule
\* stays registered so that the later events fire.
C15_RenderFailureIsCaught ==
    [][lastCall'.op = "partCallback"
            => /\ ~lastCall'.threw
               /\ session'.eventsPlayed = session.eventsPlayed + 1
               /\ part' = part /\ ScheduleRegistered'
               /\ transport' = transport]_vars

\* C15's case: the callback of a scheduled event has run and the synth threw
\* for that event.
C15_Witness ==
    /\ lastCall.op = "partCallback" /\ lastCall.result.kind = "renderFailed"
    /\ session.eventsPlayed > 0 /\ ScheduleRegistered

\* A step in which a handler has given the session a pattern that setPattern
\* accepts and built a schedule for it.
ReplacementStep ==
    /\ lastCall'.op \in {"update", "clickStart"}
    /\ lastCall'.reset /\ Accepted(lastCall'.arg)
    /\ lastCall'.result = ScheduledResult

\* C16: replacing the pattern edits nothing in place.  The events a schedule
\* holds are, after every step, either the ones it held before or the whole
\* timeline of the session, so a callback renders an event of one timeline
\* only; and after a replacement the session holds the caller's pattern as it
\* was sent and the schedule holds the new timeline.
C16_ReplacementIsWholesale ==
    [][/\ part'.events = part.events \/ part'.events = session'.flattenedNotes
       /\ ReplacementStep
            => /\ session'.pattern = lastCall'.arg
               /\ part'.events = session'.flattenedNotes
       /\ (lastCall'.op = "partCallback" /\ lastCall'.result.kind # "null")
            => \E i \in 1..Len(part.events) : lastCall'.result.event = part.events[i]]_vars

\* C16's case: an 'update' has replaced the pattern of a player whose
\* schedule was running (a 'stop' message had found it started), and the
\* schedule now holds the new timeline.
C16_Witness ==
    /\ lastCall.op = "update" /\ lastCall.result = ScheduledResult
    /\ stopRequested
    /\ session.pattern = PatternB /\ Len(part.events) = 2
    /\ part.events = session.flattenedNotes

\* The handlers' positions right after initializePlayer() has created a
\* Session and a synth.
InitializeBegun == {"start:await", "clickStart:await"}

\* C17: initializePlayer's body runs at most once: it never creates a Session
\* when the player already holds one.
C17_SessionCreatedOnce ==
    [][lastCall'.op \in InitializeBegun => ~session.exists]_vars

\* C18: next() on a non-empty timeline returns the event stored at index
\* position, sets position to (position + 1) mod length and adds one to
\* eventsPlayed; on an empty timeline it returns null and changes neither.
C18_NextReturnsEventAtPosition ==
    [][lastCall'.op = "next"
            => IF Length > 0
               THEN /\ session.position < Length
                    /\ lastCall'.result.kind = "object"
                    /\ lastCall'.result.event = EventAt(session)
                    /\ session'.position = (session.position + 1) % Length
                    /\ session'.eventsPlayed = session.eventsPlayed + 1
               ELSE /\ lastCall'.result = NullResult
                    /\ session'.position = session.position
                    /\ session'.eventsPlayed = session.eventsPlayed]_vars

\* C19: reset() sets position and eventsPlayed to 0 and leaves the pattern,
\* the timeline, the tempo and the loop duration as they were.
C19_ResetKeepsPattern ==
    [][(lastCall'.op = "reset" /\ session.exists)
            => /\ session'.position = 0 /\ session'.eventsPlayed = 0
               /\ session'.pattern = session.pattern
               /\ session'.flattenedNotes = session.flattenedNotes
               /\ session'.tempo = session.tempo
               /\ session'.loopDuration = session.loopDuration]_vars

\* C19's case: reset() has been called on a session that holds a pattern.
C19_Witness ==
    /\ lastCall.op = "reset"
    /\ session.pattern = PatternC /\ Length = 1
    /\ session.position = 0 /\ session.eventsPlayed = 0
    /\ session.tempo = 90 /\ session.loopDuration = Num(150)

\* The steps that run reset(), and the steps that run setPattern with
\* resetPosition = true on a pattern it accepts.
ResettingStep ==
    \/ lastCall'.op \in {"reset", "clickStop"}
    \/ /\ lastCall'.op \in {"setPattern", "update", "clickStart"}
       /\ lastCall'.reset /\ Accepted(lastCall'.arg)

\* C20: eventsPlayed never decreases from one step to the next, except that
\* reset() and setPattern with resetPosition = true set it to 0.
C20_EventsPlayedMonotonic ==
    [][session'.eventsPlayed < session.eventsPlayed
            => (session'.eventsPlayed = 0 /\ ResettingStep)]_vars

\* C20's case: callbacks have counted up to the bound without a reset in the
\* way, after a tempo change.
C20_Witness ==
    /\ lastCall.op = "partCallback" /\ session.eventsPlayed = MaxEvents
    /\ session.tempo = 100

\* The number of notes a pattern holds, in its tracks or in its events.
RECURSIVE NoteCount(_)
NoteCount(tracks) ==
    IF tracks = <<>> THEN 0
    ELSE (IF Head(tracks).notes.tag = "array" THEN Len(Head(tracks).notes.items) ELSE 0)
         + NoteCount(Tail(tracks))

PatternNoteCount(p) ==
    IF p.tracks.tag = "array" THEN NoteCount(p.tracks.items)
    ELSE IF p.format # "jmon" /\ p.events.tag = "array" THEN Len(p.events.items)
    ELSE 0

\* C21: an accepted setPattern with resetPosition = true sets position and
\* eventsPlayed to 0; with resetPosition = false it leaves both as they were;
\* either way the session takes the new pattern, its tempo (120 when it has
\* none) and a timeline of the new pattern's notes.
C21_ResetFlagDecidesCounters ==
    [][AcceptedSetPatternStep
            => /\ IF lastCall'.reset
                  THEN session'.position = 0 /\ session'.eventsPlayed = 0
                  ELSE /\ session'.position = session.position
                       /\ session'.eventsPlayed = session.eventsPlayed
               /\ session'.pattern = lastCall'.arg
               /\ session'.tempo = IF lastCall'.arg.tempo # 0 THEN lastCall'.arg.tempo
                                   ELSE 120
               /\ Len(session'.flattenedNotes) = PatternNoteCount(lastCall'.arg)]_vars

\* C21's case: setPattern with resetPosition = false has replaced a pattern
\* that had been played from, and position and eventsPlayed are still 1.
C21_Witness ==
    /\ lastCall.op = "setPattern" /\ ~lastCall.reset
    /\ lastCall.arg = PatternB /\ session.pattern = PatternB
    /\ session.tempo = 120 /\ Length = 2
    /\ session.position = 1 /\ session.eventsPlayed = 1

\* Whether each event's time is at most the next event's time.
SortedByTime(notes) ==
    \A i \in 1..(Len(notes) - 1) : parseTime(notes[i].time) <= parseTime(notes[i + 1].time)

\* C22: after every accepted setPattern, of a tracks-shaped or of a legacy
\* events-shaped pattern, the timeline is sorted ascending by time.
C22_TimelineSorted ==
    [][AcceptedSetPatternStep => SortedByTime(session'.flattenedNotes)]_vars

\* The place of a timeline event's note among the input's notes, which are
\* told apart by their pitches.
InputIndex(all, event) == CHOOSE k \in 1..Len(all) : all[k].pitch = event.pitch

\* C23: after setPattern on a tracks-shaped pattern, any two events of equal
\* time stand in the timeline in their input order: track order first, then
\* note order within the track.
C23_FlattenIsStable ==
    [][(AcceptedSetPatternStep /\ lastCall'.arg.tracks.tag = "array")
            => LET all == AllNotes(lastCall'.arg.tracks.items)
                   tl == session'.flattenedNotes
               IN  \A i, j \in 1..Len(tl) :
                       (i < j /\ tl[i].time = tl[j].time)
                            => InputIndex(all, tl[i]) < InputIndex(all, tl[j])]_vars

\* C23's case: the pattern whose two tracks share the times 0 and 1 has been
\* flattened; the first track's note comes first at each time.
C23_Witness ==
    /\ lastCall.op = "setPattern" /\ lastCall.arg = PatternTies
    /\ Length = 4
    /\ session.flattenedNotes[1].pitch = Num(62) /\ session.flattenedNotes[1].trackLabel = "a"
    /\ session.flattenedNotes[2].pitch = Num(64) /\ session.flattenedNotes[2].trackLabel = "b"
    /\ session.flattenedNotes[3].pitch = Num(60) /\ session.flattenedNotes[3].trackLabel = "a"
    /\ session.flattenedNotes[4].pitch = Num(65) /\ session.flattenedNotes[4].trackLabel = "b"

\* x clamped to [0, 1], in ticks.
Clamp01(x) == IF x < 0 THEN 0 ELSE IF x > 60 THEN 60 ELSE x

\* C24: for every event of the timeline, the velocity that reaches the synth
\* lies in [0, 1]: it is the input velocity clamped to [0, 1] (0 stays 0), or
\* 0.7 when the input has none.
C24_VelocityClamped ==
    \A i \in 1..Length :
        LET event == session.flattenedNotes[i]
        IN  /\ Velocity(event) >= 0 /\ Velocity(event) <= 60
            /\ Velocity(event) = IF event.velocity.tag = "num"
                                 THEN Clamp01(event.velocity.n) ELSE 42

\* C25: for a number n below 10, 0 and the negative ones included,
\* parseDuration(n) is n; for n of 10 or more it is n * tempo / 60 at the
\* session's tempo.
C25_NumericDuration ==
    [][(lastCall'.op = "parseDuration" /\ lastCall'.arg.tag = "num")
            => lastCall'.result.n = IF lastCall'.arg.n < Q(10) THEN lastCall'.arg.n
                                    ELSE (lastCall'.arg.n * session.tempo) \div 60]_vars

\* C26: on a string or an absent value parseDuration does not throw and
\* returns a finite number: 4/N for "<N>n", (4/N)*(2/3) for "<N>t",
\* bars*4 + beats for a string with a ':', 0.25 for anything else.
C26_DurationOfStrings ==
    [][(lastCall'.op = "parseDuration" /\ lastCall'.arg.tag # "num")
            => LET d == lastCall'.arg
                   r == lastCall'.result.n
               IN  /\ ~lastCall'.threw
                   /\ r < Infinity
                   /\ IF d.tag = "str" /\ MatchesNoteValue(d.s)
                      THEN r * DigitsValue(SubSeq(d.s, 1, Len(d.s) - 1))
                              = IF d.s[Len(d.s)] = "n" THEN Q(4) ELSE 160
                      ELSE IF d.tag = "str" /\ Includes(d.s, ":")
                      THEN r = BarsBeats(d.s)
                      ELSE r = 15]_vars

\* What the times of this model are in quarter notes, in ticks: a number is
\* itself, "2:1" is 9, "2:1:3" is 9, "1:2.5" is 6.5, "3:" is 12, and any
\* other string or an absent value is 0.
ExpectedTime(time) ==
    CASE time.tag = "num" -> time.n
      [] time = Chars("2", ":", "1") -> Q(9)
      [] time = Str(<<"2", ":", "1", ":", "3">>) -> Q(9)
      [] time = Str(<<"1", ":", "2", ".", "5">>) -> 390
      [] time = Str(<<"3", ":">>) -> Q(12)
      [] OTHER -> 0

\* C27: parseTime returns a number unchanged, bars*4 + beats for a
\* "bars:beats" or "bars:beats:ticks" string, and 0 for any other string or
\* an absent value; parseTime("2:1") is 9.
C27_ParseTime ==
    [][lastCall'.op = "parseTime"
            => lastCall'.result = Num(ExpectedTime(lastCall'.arg))]_vars

\* C27's case: parseTime("2:1") has returned 9.
C27_Witness ==
    /\ lastCall.op = "parseTime" /\ lastCall.arg = Chars("2", ":", "1")
    /\ lastCall.result = Num(Q(9))

\* C28: flattening is idempotent: in the state a setPattern(p) has just left,
\* the same call again returns the same session, timeline included.
C28_SetPatternTwice ==
    lastCall.op = "setPattern"
        => setPattern(session, lastCall.arg, lastCall.reset)
              = [s |-> session, threw |-> lastCall.threw]

\* C28's case: setPattern has flattened the two-track pattern with shared
\* times into its four-event timeline, which a second call has to rebuild.
C28_Witness ==
    /\ lastCall.op = "setPattern" /\ lastCall.arg = PatternTies /\ lastCall.reset
    /\ session.pattern = PatternTies /\ Length = 4
    /\ session.loopDuration = Num(Q(2))

\* C29: the schedule a handler registers places each event at
\* quarterNotesToSeconds(time) at the session's tempo and loops with length
\* quarterNotesToSeconds(loopDuration).
C29_ScheduleInSeconds ==
    [][lastCall'.result = ScheduledResult
            => /\ \A i \in 1..Len(part'.events) :
                      EventTime(part', i)
                          = Num(quarterNotesToSeconds(session'.flattenedNotes[i].time.n,
                                                      session'.tempo))
               /\ part'.loopEnd = Num(quarterNotesToSeconds(session'.loopDuration.n,
                                                            session'.tempo))]_vars

\* C30: setting the pattern {tempo 120, one track "m", quarter notes at 0
\* (velocity 0.9) and 1 (no velocity)} yields a timeline of two events with
\* times 0 and 1, durations 1 and 1, velocities 0.9 and 0.7, a loop duration
\* of 2, and quarterNotesToSeconds(2) = 1.
C30_EndToEnd ==
    [][(lastCall'.op = "setPattern" /\ lastCall'.arg = PatternExample)
            => LET tl == session'.flattenedNotes
               IN  /\ Len(tl) = 2
                   /\ tl[1].time = Num(Q(0)) /\ tl[2].time = Num(Q(1))
                   /\ tl[1].duration = Num(Q(1)) /\ tl[2].duration = Num(Q(1))
                   /\ tl[1].velocity = Num(54) /\ tl[2].velocity = Num(42)
                   /\ session'.loopDuration = Num(Q(2))
                   /\ quarterNotesToSeconds(Q(2), session'.tempo) = Q(1)]_vars

\* Whether a pattern is of the legacy shape: events, no tracks, no format.
LegacyShaped(p) ==
    p.present /\ p.format # "jmon" /\ p.tracks.tag = "absent" /\ p.events.tag = "array"

\* C31: for a legacy events-shaped pattern each raw event yields one
\* timeline event whose time is parseTime(event.time) and whose trackLabel is
\* "main": a time 0 stays 0 at any index, a "bars:beats" time is converted.
C31_LegacyTimesParsed ==
    [][(lastCall'.op = "setPattern" /\ LegacyShaped(lastCall'.arg) /\ ~lastCall'.threw)
            => LET events == lastCall'.arg.events.items
                   tl == session'.flattenedNotes
               IN  /\ Len(tl) = Len(events)
                   /\ \A i \in 1..Len(events) :
                          /\ tl[i].time = Num(parseTime(events[i].time))
                          /\ tl[i].trackLabel = "main"]_vars

\* Whether a pattern's tracks or events value is empty, is no sequence, or
\* holds only tracks without a notes sequence.
EmptyOrMalformedContent(p) ==
    /\ p.present
    /\ \/ p.tracks.tag = "other"
       \/ p.tracks.tag = "absent" /\ p.format # "jmon" /\ p.events.tag = "other"
       \/ p.tracks.tag = "array" /\ NoteCount(p.tracks.items) = 0
       \/ LegacyShaped(p) /\ Len(p.events.items) = 0

\* C32: setPattern on a pattern whose tracks or events value is empty or
\* malformed returns normally and leaves an empty timeline.
C32_MalformedContentGivesEmptyTimeline ==
    [][(lastCall'.op = "setPattern" /\ EmptyOrMalformedContent(lastCall'.arg))
            => (~lastCall'.threw /\ Len(session'.flattenedNotes) = 0)]_vars

\* C33: the loop duration is a number and is not negative, in every state.
C33_LoopDurationNonNegative ==
    session.loopDuration.tag = "num" /\ session.loopDuration.n >= 0

\* C34: at most one Part is alive at any time, it is the one the player
\* holds (so stop() and dispose() act on a live Part), and when a handler
\* has built a new Part the previous one has been disposed.
C34_OneLiveSchedule ==
    /\ part.live <= 1
    /\ part.exists <=> part.live = 1
    /\ lastCall.result = ScheduledResult => (part.exists /\ part.live = 1)

\* C34's case: the Start button has restarted the pattern of a player that
\* already had a schedule, so a Part was disposed and another built.
C34_Witness ==
    /\ lastCall.op = "clickStart" /\ ~lastCall.reset
    /\ lastCall.result = ScheduledResult
    /\ part.exists /\ part.state = "started" /\ part.live = 1
    /\ status = "running"

\* C36: an 'update' whose pattern has neither tracks nor events, handled by
\* an initialised player, leaves the Transport's tempo and the schedule as
\* they were.
C36_MalformedUpdateKeepsTempo ==
    [][(/\ isInitialized /\ session.exists
        /\ lastCall'.op = "update"
        /\ lastCall'.arg.present /\ ~Accepted(lastCall'.arg))
            => (transport'.bpm = transport.bpm /\ part' = part)]_vars

\* C37: in an initialised player whose session holds a pattern, the session's
\* tempo is the Transport's tempo.
C37_TempoCoherent ==
    (isInitialized /\ session.exists /\ session.pattern.present)
        => session.tempo = transport.bpm

\* C38: while the player is stopped by the Stop button, an 'update', a
\* 'reset' or a 'setTempo' message does not start the schedule again, so that
\* no note is rendered before the Start button is pressed.
C38_StoppedUntilStart ==
    [][(status = "stopped" /\ lastCall'.op \in {"update", "reset", "setTempo"})
            => ~(part'.exists /\ part'.state = "started")]_vars


-----------------------------------------------------------------------------
(* Claims about the playground. *)

\* C35: on every tick of the playground's loop stepIndex becomes
\* (stepIndex + 1) modulo the pattern's length, muted or not, and a tick
\* while muted renders no note.
C35_MuteKeepsLoopRunning ==
    [][lastCall'.op = "tick" =>
         /\ playground'.stepIndex
              = (playground.stepIndex + 1) % Len(playground.currentPattern)
         /\ playground.isMuted => lastCall'.result.kind = "null"]_vars

\* A muted tick on a step that holds a note: nothing rendered, the step moved on.
C35_Witness ==
    /\ lastCall.op = "tick"
    /\ lastCall.result.kind = "null"
    /\ playground.isMuted
    /\ playground.isPlaying
    /\ playground.stepIndex = 2
    /\ playground.currentPattern = Filled(3, TRUE)

\* The number of true entries of a rhythm.
Hits(rhythm) == Cardinality({i \in 1..Len(rhythm) : rhythm[i]})

\* C39: euclideanRhythm(hits, total), for total >= 1 and 0 <= hits <= total,
\* returns total booleans of which exactly hits are true.
C39_EuclideanCounts ==
    [][(/\ lastCall'.op = "euclideanRhythm"
        /\ lastCall'.arg[2] >= 1
        /\ lastCall'.arg[1] >= 0
        /\ lastCall'.arg[1] <= lastCall'.arg[2]) =>
         /\ Len(lastCall'.result.rhythm) = lastCall'.arg[2]
         /\ Hits(lastCall'.result.rhythm) = lastCall'.arg[1]]_vars

\* euclideanRhythm(3, 8) returned the tresillo's three hits in eight steps.
C39_Witness ==
    /\ lastCall.op = "euclideanRhythm"
    /\ lastCall.arg = <<3, 8>>
    /\ Len(lastCall.result.rhythm) = 8
    /\ Hits(lastCall.result.rhythm) = 3

=============================================================================
